---------------------------- MODULE Spec2Model ----------------------------
(***************************************************************************)
(* nohumanallowed: stateless proof-of-work challenge protocol.             *)
(*                                                                         *)
(* createChallenge / verifyChallenge / canonicalJson / hmacSign /          *)
(* safeCompare (index.ts) and solveChallenge (client.ts), as found in      *)
(* src/packages/core/src/client.ts.                                        *)
(*                                                                         *)
(* Strings are TLA+ strings.  A JavaScript value is a record tagged by its *)
(* typeof in field t.  Numbers are multiples of one half, so that          *)
(* Math.floor and the decimal formatting of a number are not the identity. *)
(***************************************************************************)
EXTENDS Integers, Sequences, FiniteSets, TLC

VARIABLES
    now,        \* wall clock, whole seconds: Math.floor(Date.now() / 1000)
    challenge,  \* the Challenge last returned by createChallenge, or undefined
    issued,     \* the options createChallenge was called with (secret, metadata)
    solver,     \* the running / finished solveChallenge call
    request,    \* the VerifyOptions handed to verifyChallenge
    verdict,    \* the VerifyResult verifyChallenge returned for request
    meta        \* metadata values handed to canonicalJson, and its output for each

vars == <<now, challenge, issued, solver, request, verdict, meta>>

-----------------------------------------------------------------------------
(* JavaScript values *)

Undef == [t |-> "undefined"]
Null == [t |-> "null"]
Bool(b) == [t |-> "boolean", b |-> b]
\* the finite number i, and the finite number i + 0.5
Num(i) == [t |-> "number", k |-> "fin", i |-> i, half |-> FALSE]
Half(i) == [t |-> "number", k |-> "fin", i |-> i, half |-> TRUE]
NaN == [t |-> "number", k |-> "nan"]
PosInf == [t |-> "number", k |-> "inf", neg |-> FALSE]
NegInf == [t |-> "number", k |-> "inf", neg |-> TRUE]
Str(s) == [t |-> "string", s |-> s]
\* an array, by element order
Arr(items) == [t |-> "array", items |-> items]
\* an object: its own enumerable properties <<key, value>> in insertion order
Obj(pairs) == [t |-> "object", pairs |-> pairs]

\* a positive finite number smaller than half the gap between the clock's value
\* and the next double (1e-9, say): Twice rounds it to 0, as a sum with the
\* clock does
Tiny == [t |-> "number", k |-> "fin", i |-> 0, half |-> FALSE, tiny |-> TRUE]
IsTiny(v) == "tiny" \in DOMAIN v

IsFinite(v) == v.t = "number" /\ v.k = "fin"
\* twice the value of a finite number, an integer
Twice(v) == 2 * v.i + (IF v.half THEN 1 ELSE 0)
Positive(v) == IsFinite(v) /\ (Twice(v) > 0 \/ IsTiny(v))
\* rounding to the nearest integer instead of down
MathRound(v) == IF v.half THEN v.i + 1 ELSE v.i
\* Math.floor of a finite number
MathFloor(v) == v.i

\* ToBoolean: what `!x` and `if (x)` test
Truthy(v) ==
    CASE v.t = "undefined" -> FALSE
      [] v.t = "null" -> FALSE
      [] v.t = "boolean" -> v.b
      [] v.t = "number" -> IF v.k = "fin" THEN Twice(v) # 0 \/ IsTiny(v) ELSE v.k = "inf"
      [] v.t = "string" -> v.s # ""
      [] OTHER -> TRUE

-----------------------------------------------------------------------------
(* Strings *)

Digits == "0123456789"
Digit(d) == SubSeq(Digits, d + 1, d + 1)

RECURSIVE NatToStr(_)
\* Number.prototype.toString of a non-negative integer: decimal, no leading zero
NatToStr(n) == IF n < 10 THEN Digit(n) ELSE NatToStr(n \div 10) \o Digit(n % 10)

\* String(v) / `${v}` of a number or a string
ToStr(v) ==
    CASE v.t = "string" -> v.s
      [] v.t = "number" /\ v.k = "nan" -> "NaN"
      [] v.t = "number" /\ v.k = "inf" -> IF v.neg THEN "-Infinity" ELSE "Infinity"
      [] v.t = "number" /\ v.k = "fin" ->
            LET w == Twice(v)
                a == IF w < 0 THEN 0 - w ELSE w
            IN (IF w < 0 THEN "-" ELSE "") \o NatToStr(a \div 2)
                   \o (IF a % 2 = 1 THEN ".5" ELSE "")

StartsWith(s, p) == Len(p) <= Len(s) /\ SubSeq(s, 1, Len(p)) = p

RECURSIVE Repeat(_, _)
\* String.prototype.repeat
Repeat(s, n) == IF n <= 0 THEN "" ELSE s \o Repeat(s, n - 1)

RECURSIVE AllZeros(_)
AllZeros(s) == s = "" \/ (SubSeq(s, 1, 1) = "0" /\ AllZeros(SubSeq(s, 2, Len(s))))

\* a target test that lets a seventh zero through
MatchesTargetUpToSeven(s) == Len(s) >= 1 /\ Len(s) <= 7 /\ AllZeros(s)

\* /^0{1,6}$/.test(s)
MatchesTarget(s) == Len(s) >= 1 /\ Len(s) <= 6 /\ AllZeros(s)

-----------------------------------------------------------------------------
(* Digest and MAC primitives (node:crypto), as a deterministic stand-in:   *)
(* a 64-character lowercase hex string computed from every character of    *)
(* the message.                                                            *)

\* the characters that occur in hashed messages, in UTF-16 code unit order
Alphabet == "\",-.0123456789:INT[\\]_abcdefghijklmnopqrstuvwxyz{|}"
CodeOf ==
    [c \in {SubSeq(Alphabet, i, i) : i \in 1..Len(Alphabet)} |->
        CHOOSE i \in 1..Len(Alphabet) : SubSeq(Alphabet, i, i) = c]
HexDigits == "0123456789abcdef"

\* one character absorbed into the state h
Mix(h, s, i) == (h * 127 + CodeOf[SubSeq(s, i, i)]) % 16777213

RECURSIVE Absorb(_, _)
\* the state after absorbing the characters at.i.. of s into at.h, eight at a
\* time while eight remain
Absorb(s, at) ==
    IF at.i > Len(s) THEN at.h
    ELSE IF at.i + 7 <= Len(s)
         THEN Absorb(s, [i |-> at.i + 8,
                         h |-> Mix(Mix(Mix(Mix(Mix(Mix(Mix(Mix(at.h, s, at.i), s, at.i + 1),
                                   s, at.i + 2), s, at.i + 3), s, at.i + 4), s, at.i + 5),
                                   s, at.i + 6), s, at.i + 7)])
         ELSE Absorb(s, [i |-> at.i + 1, h |-> Mix(at.h, s, at.i)])

\* the state that gives digit i of the digest, from the state before it
Turn(st, c, i) == (st * st + c + i) % 46337
HexOf(st) == SubSeq(HexDigits, ((st \div 16) % 16) + 1, ((st \div 16) % 16) + 1)

\* the hex digits i..i+7 of the digest and the state after them
Octet(st, c, i) ==
    LET s1 == Turn(st, c, i)
        s2 == Turn(s1, c, i + 1)
        s3 == Turn(s2, c, i + 2)
        s4 == Turn(s3, c, i + 3)
        s5 == Turn(s4, c, i + 4)
        s6 == Turn(s5, c, i + 5)
        s7 == Turn(s6, c, i + 6)
        s8 == Turn(s7, c, i + 7)
    IN [hex |-> HexOf(s1) \o (HexOf(s2) \o (HexOf(s3) \o (HexOf(s4)
                    \o (HexOf(s5) \o (HexOf(s6) \o (HexOf(s7) \o HexOf(s8))))))),
        st |-> s8]

\* the 64 hex digits of the digest, from the absorbed state
Squeeze ==
    [seed \in Nat |->
        LET c == (seed \div 46337) + 1
            o1 == Octet(seed % 46337, c, 1)
            o2 == Octet(o1.st, c, 9)
            o3 == Octet(o2.st, c, 17)
            o4 == Octet(o3.st, c, 25)
            o5 == Octet(o4.st, c, 33)
            o6 == Octet(o5.st, c, 41)
            o7 == Octet(o6.st, c, 49)
            o8 == Octet(o7.st, c, 57)
        IN o1.hex \o (o2.hex \o (o3.hex \o (o4.hex
               \o (o5.hex \o (o6.hex \o (o7.hex \o o8.hex))))))]

\* the digest of a message, as 64 hex digits
Digest == [message \in STRING |-> Squeeze[Absorb(message, [i |-> 1, h |-> 7])]]

\* createHash('sha256').update(message).digest('hex').slice(0, length)
Sha256HexSlice(message, length) == SubSeq(Digest[message], 1, length)

\* createHash('sha256').update(message).digest('hex')
Sha256Hex(message) == Sha256HexSlice(message, 64)

\* createHmac('sha256', secret).update(payload).digest('hex')
\*     .slice(0, length)
HmacSha256HexSlice(secret, payload, length) ==
    Sha256HexSlice("|" \o secret \o "|" \o payload, length)

\* hmacSign(payload, secret, length)
hmacSign(payload, secret, length) == HmacSha256HexSlice(secret, payload, length)

\* safeCompare that stops after the length test
safeCompareLengthOnly(a, b) ==
    IF a.t # "string" THEN FALSE ELSE Len(a.s) = Len(b)

\* safeCompare(a, b): a is the caller's value, b a string.  A value whose
\* .length is not b's length is rejected before timingSafeEqual compares bytes.
safeCompare(a, b) ==
    IF a.t # "string" THEN FALSE
    ELSE IF Len(a.s) # Len(b) THEN FALSE
    ELSE a.s = b

-----------------------------------------------------------------------------
(* canonicalJson *)

RECURSIVE Escape(_)
Escape(s) ==
    IF s = "" THEN ""
    ELSE LET c == SubSeq(s, 1, 1)
         IN (IF c = "\"" \/ c = "\\" THEN "\\" \o c ELSE c) \o Escape(SubSeq(s, 2, Len(s)))

\* JSON.stringify of a string
Quote(s) == "\"" \o Escape(s) \o "\""

\* JSON.stringify of a primitive: a string, or undefined for undefined
JsonStringify(v) ==
    CASE v.t = "null" -> Str("null")
      [] v.t = "boolean" -> Str(IF v.b THEN "true" ELSE "false")
      [] v.t = "number" -> Str(IF v.k = "fin" THEN ToStr(v) ELSE "null")
      [] v.t = "string" -> Str(Quote(v.s))
      [] v.t = "undefined" -> Undef

RECURSIVE StrLess(_, _)
\* a < b by UTF-16 code units, the order of Array.prototype.sort()
StrLess(a, b) ==
    IF b = "" THEN FALSE
    ELSE IF a = "" THEN TRUE
    ELSE LET x == CodeOf[SubSeq(a, 1, 1)]
             y == CodeOf[SubSeq(b, 1, 1)]
         IN IF x # y THEN x < y
            ELSE StrLess(SubSeq(a, 2, Len(a)), SubSeq(b, 2, Len(b)))

\* keys left in insertion order
KeepOrder(ks) == ks

RECURSIVE SortStrings(_)
\* Object.keys(obj).sort(): the keys of one object are distinct
SortStrings(ks) ==
    IF ks = <<>> THEN <<>>
    ELSE LET m == CHOOSE i \in 1..Len(ks) : \A j \in 1..Len(ks) : ~StrLess(ks[j], ks[i])
         IN <<ks[m]>> \o SortStrings(SubSeq(ks, 1, m - 1) \o SubSeq(ks, m + 1, Len(ks)))

\* Object.keys(obj), and obj[key]
ObjectKeys(obj) == [i \in 1..Len(obj.pairs) |-> obj.pairs[i][1]]
Get(obj, key) == obj.pairs[CHOOSE i \in 1..Len(obj.pairs) : obj.pairs[i][1] = key][2]

RECURSIVE Join(_)
\* Array.prototype.join(','): an undefined element is joined as the empty string
Join(vs) ==
    IF vs = <<>> THEN ""
    ELSE (IF vs[1].t = "undefined" THEN "" ELSE vs[1].s)
         \o (IF Len(vs) > 1 THEN "," ELSE "") \o Join(Tail(vs))

\* string + value: undefined is concatenated as "undefined"
Concat(s, v) == s \o (IF v.t = "undefined" THEN "undefined" ELSE v.s)

RECURSIVE canonicalJson(_)
canonicalJson(obj) ==
    IF obj.t # "array" /\ obj.t # "object" THEN JsonStringify(obj)
    ELSE IF obj.t = "array"
    THEN Str("[" \o Join([i \in 1..Len(obj.items) |-> canonicalJson(obj.items[i])]) \o "]")
    ELSE LET sortedKeys == SortStrings(ObjectKeys(obj))
             pairs == [i \in 1..Len(sortedKeys) |->
                          Str(Concat(Quote(sortedKeys[i]) \o ":",
                                     canonicalJson(Get(obj, sortedKeys[i]))))]
         IN Str("{" \o Join(pairs) \o "}")

-----------------------------------------------------------------------------
(* createChallenge and verifyChallenge *)

Max(a, b) == IF a > b THEN a ELSE b
Min(a, b) == IF a < b THEN a ELSE b

\* the sum of two finite numbers
Plus(a, b) ==
    LET w == Twice(a) + Twice(b)
    IN [t |-> "number", k |-> "fin", i |-> w \div 2, half |-> w % 2 = 1]

\* metadata ? createHash('sha256').update(canonicalJson(metadata)).digest('hex').slice(0, 16) : ''
metaHash(metadata) ==
    IF Truthy(metadata) THEN Sha256HexSlice(canonicalJson(metadata).s, 16) ELSE ""

\* a signing payload that leaves the target out
payloadWithoutTarget(prefix, target, expiresAt, mHash) ==
    prefix \o ":" \o ToStr(expiresAt) \o ":" \o mHash

\* `${prefix}:${target}:${expiresAt}:${metaHash}`
payload(prefix, target, expiresAt, mHash) ==
    prefix \o ":" \o target \o ":" \o ToStr(expiresAt) \o ":" \o mHash

\* a normalisation that lets zero through
expiresInOrDefaultKeepsZero(expiresIn) ==
    IF ~IsFinite(expiresIn) \/ (~Positive(expiresIn) /\ Twice(expiresIn) # 0)
    THEN Num(60) ELSE expiresIn

\* if (!Number.isFinite(expiresIn) || expiresIn <= 0) expiresIn = 60
expiresInOrDefault(expiresIn) ==
    IF ~IsFinite(expiresIn) \/ ~Positive(expiresIn) THEN Num(60) ELSE expiresIn

\* createChallenge(options) at clock t (seconds); idHex and prefixHex are
\* randomBytes(12).toString('hex') and randomBytes(8).toString('hex').
\* options.secret is a string or absent.
createChallenge(options, idHex, prefixHex, t) ==
    LET e0 == IF options.expiresIn.t = "undefined" THEN Num(60) ELSE options.expiresIn
        d0 == IF options.difficulty.t = "undefined" THEN Num(4) ELSE options.difficulty
        expiresIn == expiresInOrDefault(e0)
        difficulty == IF ~IsFinite(d0) THEN Num(4) ELSE d0
        clampedDifficulty == Max(1, Min(6, MathFloor(difficulty)))
        target == Repeat("0", clampedDifficulty)
        expiresAt == Plus(Num(t), expiresIn)
        unsigned == [id |-> "nha_" \o idHex, prefix |-> prefixHex, target |-> target,
                     expiresAt |-> expiresAt, metadata |-> options.metadata,
                     signature |-> Undef]
    IN IF Truthy(options.secret)
       THEN [unsigned EXCEPT !.signature =
                Str(hmacSign(payload(prefixHex, target, expiresAt, metaHash(options.metadata)),
                             options.secret.s, 32))]
       ELSE unsigned

Invalid(reason) == [valid |-> FALSE, reason |-> Str(reason), hash |-> Undef]
\* createHmac throws a TypeError for a key that is no string
Threw == [threw |-> "TypeError"]
Returned(result) == "valid" \in DOMAIN result

\* an expiry test that also rejects at the instant of expiry
isExpiredInclusive(t, expiresAt) == 2 * t >= Twice(expiresAt)

\* now > expiresAt, for the clock t in whole seconds
isExpired(t, expiresAt) == 2 * t > Twice(expiresAt)

\* the signature checks without the fail-closed test for a missing secret
signatureChecksFailOpen(options) ==
    LET signature == options.signature
        secret == options.secret
    IN IF Truthy(options.requireSignature) /\ ~Truthy(secret) THEN "missing_secret"
       ELSE IF Truthy(options.requireSignature) /\ ~Truthy(signature) THEN "missing_signature"
       ELSE IF Truthy(signature) /\ Truthy(secret) /\ secret.t # "string" THEN "throw"
       ELSE IF Truthy(signature) /\ Truthy(secret)
               /\ ~safeCompare(signature,
                       hmacSign(payload(options.prefix.s, options.target.s, options.expiresAt,
                                        metaHash(options.metadata)), secret.s, 32))
       THEN "invalid_signature"
       ELSE "ok"

\* the signature checks of verifyChallenge, made once prefix, target and expiresAt
\* are known to be well-formed: the reason of the first that fails, "throw" where
\* createHmac throws, or "ok"
signatureChecks(options) ==
    LET signature == options.signature
        secret == options.secret
    IN IF Truthy(options.requireSignature) /\ ~Truthy(secret) THEN "missing_secret"
       ELSE IF Truthy(options.requireSignature) /\ ~Truthy(signature) THEN "missing_signature"
       ELSE IF Truthy(signature) /\ ~Truthy(secret) THEN "missing_secret"
       ELSE IF Truthy(signature) /\ Truthy(secret) /\ secret.t # "string" THEN "throw"
       ELSE IF Truthy(signature) /\ Truthy(secret)
               /\ ~safeCompare(signature,
                       hmacSign(payload(options.prefix.s, options.target.s, options.expiresAt,
                                        metaHash(options.metadata)), secret.s, 32))
       THEN "invalid_signature"
       ELSE "ok"

\* a verifier that makes the signature checks before the expiry check
verifyChallengeSignatureFirst(options, t) ==
    LET prefix == options.prefix
        nonce == options.nonce
        target == options.target
        expiresAt == options.expiresAt
    IN IF ~Truthy(prefix) \/ prefix.t # "string" \/ Len(prefix.s) = 0
       THEN Invalid("invalid_input")
       ELSE IF nonce.t = "undefined" \/ nonce.t = "null"
               \/ (nonce.t # "string" /\ nonce.t # "number")
       THEN Invalid("invalid_input")
       ELSE IF ~Truthy(target) \/ target.t # "string" \/ ~MatchesTarget(target.s)
       THEN Invalid("invalid_target")
       ELSE IF ~IsFinite(expiresAt) \/ Twice(expiresAt) <= 0
       THEN Invalid("invalid_expiry")
       ELSE LET checked == signatureChecks(options)
                hash == Sha256Hex(prefix.s \o ToStr(nonce))
            IN IF checked = "throw" THEN Threw
               ELSE IF checked # "ok" THEN Invalid(checked)
               ELSE IF isExpired(t, expiresAt)
               THEN Invalid("expired")
               ELSE IF ~StartsWith(hash, target.s)
               THEN [valid |-> FALSE, reason |-> Str("invalid_hash"), hash |-> Str(hash)]
               ELSE [valid |-> TRUE, reason |-> Undef, hash |-> Str(hash)]

\* verifyChallenge(options) at clock t (seconds)
verifyChallenge(options, t) ==
    LET prefix == options.prefix
        nonce == options.nonce
        target == options.target
        expiresAt == options.expiresAt
    IN IF ~Truthy(prefix) \/ prefix.t # "string" \/ Len(prefix.s) = 0
       THEN Invalid("invalid_input")
       ELSE IF nonce.t = "undefined" \/ nonce.t = "null"
               \/ (nonce.t # "string" /\ nonce.t # "number")
       THEN Invalid("invalid_input")
       ELSE IF ~Truthy(target) \/ target.t # "string" \/ ~MatchesTarget(target.s)
       THEN Invalid("invalid_target")
       ELSE IF ~IsFinite(expiresAt) \/ Twice(expiresAt) <= 0
       THEN Invalid("invalid_expiry")
       ELSE IF isExpired(t, expiresAt)
       THEN Invalid("expired")
       ELSE LET checked == signatureChecks(options)
                hash == Sha256Hex(prefix.s \o ToStr(nonce))
            IN IF checked = "throw" THEN Threw
               ELSE IF checked # "ok" THEN Invalid(checked)
               ELSE IF ~StartsWith(hash, target.s)
               THEN [valid |-> FALSE, reason |-> Str("invalid_hash"), hash |-> Str(hash)]
               ELSE [valid |-> TRUE, reason |-> Undef, hash |-> Str(hash)]

-----------------------------------------------------------------------------
(* solveChallenge *)

\* maxIterations = 10_000_000 when the option is absent
DefaultMaxIterations == 10000000

\* a loop test that lets the nonce reach maxIterations
LessOrEqual(nonce, maxIterations) ==
    CASE maxIterations.k = "fin" -> 2 * nonce <= Twice(maxIterations)
      [] maxIterations.k = "nan" -> FALSE
      [] maxIterations.k = "inf" -> ~maxIterations.neg

\* nonce < maxIterations, for the integer nonce
LessThan(nonce, maxIterations) ==
    CASE maxIterations.k = "fin" -> 2 * nonce < Twice(maxIterations)
      [] maxIterations.k = "nan" -> FALSE
      [] maxIterations.k = "inf" -> ~maxIterations.neg

NotFound(iterations) ==
    [found |-> FALSE, nonce |-> Undef, iterations |-> iterations, hash |-> Undef]
Found(nonceStr, iterations, hash) ==
    [found |-> TRUE, nonce |-> Str(nonceStr), iterations |-> iterations, hash |-> Str(hash)]

\* progressInterval = 100_000 when the option is absent
DefaultProgressInterval == 100000

\* Date.now() - startTime <= 0 gives 0, else Math.round((iterations / timeMs) * 1000)
calculateHashRate(iterations, timeMs) ==
    IF timeMs <= 0 THEN 0 ELSE (2 * iterations * 1000 + timeMs) \div (2 * timeMs)

\* a progress test on the loop variable instead of the counter
RemainderIsZeroOfNonce(iterations, progressInterval) ==
    /\ IsFinite(progressInterval)
    /\ Twice(progressInterval) # 0
    /\ (2 * (iterations - 1)) % (IF Twice(progressInterval) < 0 THEN 0 - Twice(progressInterval)
                                 ELSE Twice(progressInterval)) = 0

\* iterations % progressInterval === 0, for the positive integer iterations
RemainderIsZero(iterations, progressInterval) ==
    /\ IsFinite(progressInterval)
    /\ Twice(progressInterval) # 0
    /\ (2 * iterations) % (IF Twice(progressInterval) < 0 THEN 0 - Twice(progressInterval)
                           ELSE Twice(progressInterval)) = 0

\* the progress callback of a pass that did not match: s.calls with the call
\* onProgress(iterations, hashRate) made at time t added, if one is made
Progress(s, iterations, t) ==
    IF Truthy(s.onProgress) /\ RemainderIsZero(iterations, s.progressInterval)
    THEN Append(s.calls, [iterations |-> iterations, timeMs |-> t - s.startTime,
                          hashRate |-> calculateHashRate(iterations, t - s.startTime)])
    ELSE s.calls

\* a loop that steps the nonce by two
IterateByTwo(s, t) ==
    IF ~LessThan(s.nonce, s.maxIterations)
    THEN [s EXCEPT !.pc = "done", !.result = NotFound(s.iterations)]
    ELSE LET nonceStr == NatToStr(s.nonce)
             hash == Sha256Hex(ToStr(s.prefix) \o nonceStr)
         IN IF StartsWith(hash, ToStr(s.target))
            THEN [s EXCEPT !.pc = "done", !.iterations = s.iterations + 1,
                           !.result = Found(nonceStr, s.iterations + 1, hash)]
            ELSE [s EXCEPT !.iterations = s.iterations + 1, !.nonce = s.nonce + 2,
                           !.calls = Progress(s, s.iterations + 1, t)]

\* a loop that reports the nonce after the one it hashed
IterateReportsNext(s, t) ==
    IF ~LessThan(s.nonce, s.maxIterations)
    THEN [s EXCEPT !.pc = "done", !.result = NotFound(s.iterations)]
    ELSE LET hash == Sha256Hex(ToStr(s.prefix) \o NatToStr(s.nonce))
         IN IF StartsWith(hash, ToStr(s.target))
            THEN [s EXCEPT !.pc = "done", !.iterations = s.iterations + 1,
                           !.result = Found(NatToStr(s.nonce + 1), s.iterations + 1, hash)]
            ELSE [s EXCEPT !.iterations = s.iterations + 1, !.nonce = s.nonce + 1,
                           !.calls = Progress(s, s.iterations + 1, t)]

\* one pass through the body of the for loop, from the loop test on, with
\* Date.now() = t: the solver after it.  s.nonce is the loop variable,
\* s.iterations the counter, s.calls the calls of onProgress so far.
Iterate(s, t) ==
    IF ~LessThan(s.nonce, s.maxIterations)
    THEN [s EXCEPT !.pc = "done", !.result = NotFound(s.iterations)]
    ELSE LET nonceStr == NatToStr(s.nonce)
             hash == Sha256Hex(ToStr(s.prefix) \o nonceStr)
         IN IF StartsWith(hash, ToStr(s.target))
            THEN [s EXCEPT !.pc = "done", !.iterations = s.iterations + 1,
                           !.result = Found(nonceStr, s.iterations + 1, hash)]
            ELSE [s EXCEPT !.iterations = s.iterations + 1, !.nonce = s.nonce + 1,
                           !.calls = Progress(s, s.iterations + 1, t)]

RECURSIVE RunToEnd(_, _)
\* the loop run without suspension (synchronous hashing)
RunToEnd(s, t) == IF s.pc = "done" THEN s ELSE RunToEnd(Iterate(s, t), t)

Idle == [pc |-> "idle"]

\* options[name], undefined when the property is absent
Property(options, name) == IF name \in DOMAIN options THEN options[name] ELSE Undef

\* the state of solveChallenge(options) on entry to the loop, with Date.now() = t;
\* isNode is typeof window === 'undefined'
Enter(options, isNode, t) ==
    [pc |-> "loop", isNode |-> isNode, prefix |-> options.prefix, target |-> options.target,
     maxIterations |-> IF options.maxIterations.t = "undefined"
                       THEN Num(DefaultMaxIterations) ELSE options.maxIterations,
     onProgress |-> Property(options, "onProgress"),
     progressInterval |-> IF Property(options, "progressInterval").t = "undefined"
                          THEN Num(DefaultProgressInterval)
                          ELSE Property(options, "progressInterval"),
     startTime |-> t, nonce |-> 0, iterations |-> 0, calls |-> << >>, result |-> Undef]

-----------------------------------------------------------------------------
(* Bounds and input sets *)

\* the clock runs 1..MaxNow
MaxNow == 4
\* the largest maxIterations handed to the solver
MaxTries == 6

\* values of randomBytes(8).toString('hex') and randomBytes(12).toString('hex')
Prefixes == {"acc2dda14cc0994d", "345d860865e1f8a6"}
IdHex == "0123456789abcdef01234567"

Secrets == {Str("k1"), Str("k2")}

MetaA == Obj(<< <<"ab", Num(1)>>, <<"b", Null>> >>)
\* MetaA with its keys inserted in the other order
MetaARev == Obj(<< <<"b", Null>>, <<"ab", Num(1)>> >>)
\* MetaA with NaN for null, and with another number
MetaANaN == Obj(<< <<"ab", Num(1)>>, <<"b", NaN>> >>)
MetaA2 == Obj(<< <<"ab", Num(2)>>, <<"b", Null>> >>)
MetaEmpty == Obj(<< >>)

-----------------------------------------------------------------------------
(* The protocol: one challenge is created, solved and submitted *)

Init ==
    /\ now = 1
    /\ challenge = Undef
    /\ issued = Undef
    /\ solver = Idle
    /\ request = Undef
    /\ verdict = Undef
    /\ meta = Undef

\* Date.now(), read on a whole second
DateNow == 1000 * now

\* time passes
Tick ==
    /\ now < MaxNow
    /\ request = Undef
    /\ now' = now + 1
    /\ UNCHANGED <<challenge, issued, solver, request, verdict, meta>>

CreateOptions ==
    [difficulty : {Num(1), Num(2)}, expiresIn : {Num(1), Num(2)},
     metadata : {Undef, MetaA}, secret : {Undef, Str("k1")}]

\* the issuer calls createChallenge(options)
Create ==
    /\ challenge = Undef
    /\ \E options \in CreateOptions, prefixHex \in Prefixes :
          /\ challenge' = createChallenge(options, IdHex, prefixHex, now)
          /\ issued' = options
    /\ UNCHANGED <<now, solver, request, verdict, meta>>

\* the agent calls solveChallenge({prefix, target}) on the challenge
SolveStart ==
    /\ challenge # Undef
    /\ solver = Idle
    /\ \E isNode \in BOOLEAN :
          solver' = Enter([prefix |-> Str(challenge.prefix), target |-> Str(challenge.target),
                           maxIterations |-> Undef], isNode, DateNow)
    /\ UNCHANGED <<now, challenge, issued, request, verdict, meta>>

\* in a browser each iteration awaits the digest: one iteration per step
SolveStep ==
    /\ solver.pc = "loop"
    /\ ~solver.isNode
    /\ solver' = Iterate(solver, DateNow)
    /\ UNCHANGED <<now, challenge, issued, request, verdict, meta>>

\* under Node the digest is synchronous: the loop runs to its end in one step
SolveRun ==
    /\ solver.pc = "loop"
    /\ solver.isNode
    /\ solver' = RunToEnd(solver, DateNow)
    /\ UNCHANGED <<now, challenge, issued, request, verdict, meta>>

\* s with the character at position i replaced by another hex digit
FlipChar(s, i) ==
    SubSeq(s, 1, i - 1) \o (IF SubSeq(s, i, i) = "0" THEN "1" ELSE "0")
        \o SubSeq(s, i + 1, Len(s))

\* the submission that repeats the challenge's own fields with the solver's nonce
Honest ==
    [prefix |-> Str(challenge.prefix), nonce |-> solver.result.nonce,
     target |-> Str(challenge.target), expiresAt |-> challenge.expiresAt,
     signature |-> challenge.signature, secret |-> issued.secret,
     requireSignature |-> Undef, metadata |-> challenge.metadata]

\* submissions that alter the signed fields and keep signature and secret
FieldTampers ==
    {[Honest EXCEPT !.prefix = Str(p), !.target = Str(tg), !.expiresAt = e, !.metadata = m] :
        p \in Prefixes \cup {challenge.prefix \o ":" \o challenge.target},
        tg \in {challenge.target, "0", "00"},
        e \in {challenge.expiresAt, Plus(challenge.expiresAt, Num(1))},
        m \in {challenge.metadata, Undef, MetaA, MetaARev, MetaANaN, MetaA2, MetaEmpty}}

\* signatures a client may send instead of the challenge's
SignatureTampers ==
    {challenge.signature, Undef, Str(""), Str("tampered-signature")}
        \cup (IF challenge.signature.t = "string"
              THEN {Str(FlipChar(challenge.signature.s, i)) : i \in {1, 17, 32}}
                       \cup {Str(SubSeq(challenge.signature.s, 1, 31))}
              ELSE {})

\* submissions that alter signature, secret or requireSignature and keep the fields
SignatureSideTampers ==
    {[Honest EXCEPT !.signature = sg, !.secret = k, !.requireSignature = r] :
        sg \in SignatureTampers, k \in {Undef, issued.secret} \cup Secrets,
        r \in {Undef, Bool(TRUE)}}

\* the client submits a solution and the verifier calls verifyChallenge
Submit ==
    /\ challenge # Undef
    /\ solver.pc = "done"
    /\ solver.result.found
    /\ request = Undef
    /\ \E options \in FieldTampers \cup SignatureSideTampers :
          /\ request' = options
          /\ verdict' = verifyChallenge(options, now)
    /\ UNCHANGED <<now, challenge, issued, solver, meta>>

Next == Tick \/ Create \/ SolveStart \/ SolveStep \/ SolveRun \/ Submit

Spec == Init /\ [][Next]_vars

-----------------------------------------------------------------------------
(* Equality of metadata values *)

KeySet(obj) == {obj.pairs[i][1] : i \in 1..Len(obj.pairs)}

RECURSIVE SemEq(_, _)
\* a and b are the same value: the same keys with the same values whatever the
\* insertion order, the same array elements in the same order
SemEq(a, b) ==
    IF a.t # b.t THEN FALSE
    ELSE IF a.t = "object"
    THEN KeySet(a) = KeySet(b) /\ \A key \in KeySet(a) : SemEq(Get(a, key), Get(b, key))
    ELSE IF a.t = "array"
    THEN Len(a.items) = Len(b.items)
         /\ \A i \in 1..Len(a.items) : SemEq(a.items[i], b.items[i])
    ELSE a = b

\* what JSON keeps of a primitive: a number that is not finite becomes null
AsJson(v) == IF v.t = "number" /\ v.k # "fin" THEN Null ELSE v

RECURSIVE JsonEq(_, _)
\* a and b are the same value as far as JSON can tell
JsonEq(a, b) ==
    IF AsJson(a).t # AsJson(b).t THEN FALSE
    ELSE IF a.t = "object"
    THEN KeySet(a) = KeySet(b) /\ \A key \in KeySet(a) : JsonEq(Get(a, key), Get(b, key))
    ELSE IF a.t = "array"
    THEN Len(a.items) = Len(b.items)
         /\ \A i \in 1..Len(a.items) : JsonEq(a.items[i], b.items[i])
    ELSE AsJson(a) = AsJson(b)

-----------------------------------------------------------------------------
(* Properties of the protocol *)

Submitted == request # Undef
\* the clock has not passed the challenge's expiresAt
NotExpired == 2 * now <= Twice(challenge.expiresAt)
SameFields ==
    /\ request.prefix = Str(challenge.prefix)
    /\ request.target = Str(challenge.target)
    /\ request.expiresAt = challenge.expiresAt
SolversNonce == request.nonce = solver.result.nonce

\* the solver's answer submitted with the challenge's fields and no signature
PlainSubmission ==
    /\ Submitted /\ SameFields /\ SolversNonce
    /\ request.signature = Undef /\ request.requireSignature = Undef

\* C1: a challenge made by createChallenge and solved by solveChallenge, verified
\* before it expires with its own prefix, target and expiresAt and the solver's
\* nonce, is valid; the verifier's hash is the solver's hash and starts with target.
C1_SolvedVerifies ==
    (PlainSubmission /\ NotExpired) =>
        /\ verdict.valid
        /\ verdict.hash = solver.result.hash
        /\ StartsWith(verdict.hash.s, challenge.target)

C1_Witness ==
    /\ PlainSubmission /\ NotExpired
    /\ verdict.valid
    /\ solver.result.iterations > 1
    /\ challenge.target = "00"

\* a submission under the issuing secret that repeats every signed field
SignedSubmission ==
    /\ Submitted /\ SameFields /\ SolversNonce
    /\ Truthy(issued.secret) /\ request.secret = issued.secret
    /\ request.metadata = challenge.metadata

\* C3 as claimed: with the challenge's signature the submission is valid, and with
\* any other string as signature it is rejected with invalid_signature.
C3_AsClaimed ==
    (SignedSubmission /\ NotExpired) =>
        /\ request.signature = challenge.signature => verdict.valid
        /\ (request.signature.t = "string" /\ request.signature # challenge.signature) =>
              (~verdict.valid /\ verdict.reason = Str("invalid_signature"))

\* C3, amended: with the challenge's signature the submission is valid, and with
\* any other non-empty string as signature it is rejected with invalid_signature.
C3_SignedAndTampered ==
    (SignedSubmission /\ NotExpired) =>
        /\ request.signature = challenge.signature => verdict.valid
        /\ (request.signature.t = "string" /\ request.signature.s # ""
               /\ request.signature # challenge.signature) =>
              (~verdict.valid /\ verdict.reason = Str("invalid_signature"))

\* a signature that differs from the challenge's in its last character is rejected
C3_Witness ==
    /\ SignedSubmission /\ NotExpired
    /\ challenge.metadata = MetaA
    /\ request.signature = Str(FlipChar(challenge.signature.s, 32))
    /\ verdict.reason = Str("invalid_signature")

\* a submission with the challenge's signature, verified under the issuing secret
OriginalSignature ==
    /\ Submitted
    /\ Truthy(issued.secret) /\ request.secret = issued.secret
    /\ request.signature = challenge.signature

\* C5 as claimed: under the original signature and secret, a submission whose
\* prefix, target, expiresAt or metadata is not the value used at creation is
\* never valid.
C5_AsClaimed ==
    (OriginalSignature /\ (~SameFields \/ ~SemEq(request.metadata, challenge.metadata)))
        => ~verdict.valid

\* C5, amended: under the original signature and secret, a submission whose prefix,
\* target or expiresAt is not the value used at creation, or whose metadata is not
\* the same JSON value (NaN and the infinities count as null), is never valid.
C5_FieldsBound ==
    (OriginalSignature /\ (~SameFields \/ ~JsonEq(request.metadata, challenge.metadata)))
        => ~verdict.valid

\* an easier target is submitted with a nonce that meets it, and is rejected
C5_Witness ==
    /\ OriginalSignature /\ NotExpired /\ SolversNonce
    /\ challenge.target = "00" /\ request.target = Str("0")
    /\ request.prefix = Str(challenge.prefix)
    /\ verdict.reason = Str("invalid_signature")

-----------------------------------------------------------------------------
(* The solver alone, on any options *)

SolverPrefixes == Prefixes \cup {"40aea8c5104f5d9a"}
SolverTargets == {"", "0", "00", "00000000"}
\* maxIterations: absent, a count, negative, fractional, NaN
IterationLimits ==
    {Undef, Num(0 - 1), Half(2), NaN} \cup {Num(n) : n \in 0..MaxTries}

\* the options the solver is run on; without maxIterations only on targets that
\* the prefixes reach
SolveOptions ==
    {o \in [prefix : {Str(p) : p \in SolverPrefixes}, target : {Str(tg) : tg \in SolverTargets},
            maxIterations : IterationLimits] :
        o.maxIterations = Undef => o.target.s \in {"", "0", "00"}}

\* an agent calls solveChallenge(options)
SolveAny ==
    /\ solver = Idle
    /\ \E options \in SolveOptions, isNode \in BOOLEAN : solver' = Enter(options, isNode, DateNow)
    /\ UNCHANGED <<now, challenge, issued, request, verdict, meta>>

NextSolve == SolveAny \/ SolveStep \/ SolveRun

SpecSolve == Init /\ [][NextSolve]_vars

\* SHA256(prefix + n) starts with target, for the solver's prefix and target
Matches(n) == StartsWith(Sha256Hex(solver.prefix.s \o NatToStr(n)), solver.target.s)
\* maxIterations is a count: a non-negative integer
LimitIsCount ==
    IsFinite(solver.maxIterations) /\ ~solver.maxIterations.half /\ solver.maxIterations.i >= 0
GaveUp == solver.pc = "done" /\ ~solver.result.found

\* C9 as claimed: for every maxIterations N, a search that matches nothing returns
\* found=false with iterations = N and neither nonce nor hash.
C9_AsClaimed ==
    GaveUp =>
        /\ Num(solver.result.iterations) = solver.maxIterations
        /\ solver.result.nonce = Undef /\ solver.result.hash = Undef

\* C9, amended: for every maxIterations N that is a non-negative integer the search
\* never makes more than N iterations, and one that matches nothing returns
\* found=false with iterations = N and neither nonce nor hash.
C9_GivesUpAtLimit ==
    (solver.pc # "idle" /\ LimitIsCount) =>
        /\ solver.iterations <= solver.maxIterations.i
        /\ GaveUp =>
              /\ solver.result.iterations = solver.maxIterations.i
              /\ solver.result.nonce = Undef /\ solver.result.hash = Undef

C9_Witness ==
    /\ GaveUp /\ LimitIsCount
    /\ solver.target.s = "00000000"
    /\ solver.result.iterations = MaxTries

\* C10: the nonces below the loop variable have all been tried and none matched;
\* a found result carries the smallest n < maxIterations whose digest starts with
\* target, as a decimal string, with iterations = n + 1 and that digest as hash.
C10_FirstMatch ==
    /\ solver.pc = "loop" =>
          /\ solver.iterations = solver.nonce
          /\ \A m \in 0..(solver.nonce - 1) : ~Matches(m)
    /\ (solver.pc = "done" /\ solver.result.found) =>
          \E n \in 0..solver.result.iterations :
              /\ solver.result.nonce = Str(NatToStr(n))
              /\ LessThan(n, solver.maxIterations)
              /\ Matches(n)
              /\ \A m \in 0..(n - 1) : ~Matches(m)
              /\ solver.result.iterations = n + 1
              /\ solver.result.hash = Str(Sha256Hex(solver.prefix.s \o NatToStr(n)))

\* a match found after several misses
C10_Witness ==
    /\ solver.pc = "done" /\ solver.result.found
    /\ solver.result.nonce = Str("5")
    /\ solver.target.s = "00"

-----------------------------------------------------------------------------
(* The verifier alone, on any options *)

\* the signature createChallenge gives the challenge (prefix, "0", expiresAt 2)
\* under secret k1, without metadata and with metadata MetaA
SigPlain ==
    hmacSign(payload("acc2dda14cc0994d", "0", Num(2), metaHash(Undef)), "k1", 32)
SigMetaA ==
    hmacSign(payload("acc2dda14cc0994d", "0", Num(2), metaHash(MetaA)), "k1", 32)

\* VerifyOptions as a caller may send them: fields absent, empty, wrongly typed,
\* malformed or well-formed.  Nonce "2" solves prefix acc2dda14cc0994d for target "0".
AnyVerifyOptions ==
    [prefix : {Undef, Str(""), Num(5), Str("acc2dda14cc0994d")},
     nonce : {Undef, Null, Bool(TRUE), Str("x"), Str("2"), Num(2)},
     target : {Undef, Str(""), Num(0), Str("0x"), Str("0000000"), Str("0"), Str("00")},
     expiresAt : {Undef, Str("2"), NaN, PosInf, Num(0), Num(0 - 1), Num(2), Half(2)},
     signature : {Undef, Str(""), Num(1), Str(SigPlain), Str(SigMetaA),
                  Str(FlipChar(SigPlain, 1))},
     secret : {Undef, Str("")} \cup Secrets,
     requireSignature : {Undef, Bool(FALSE), Bool(TRUE)},
     metadata : {Undef, MetaA}]

\* a server calls verifyChallenge(options)
VerifyAny ==
    /\ request = Undef
    /\ \E options \in AnyVerifyOptions :
          /\ request' = options
          /\ verdict' = verifyChallenge(options, now)
    /\ UNCHANGED <<now, challenge, issued, solver, meta>>

NextVerify == Tick \/ VerifyAny

SpecVerify == Init /\ [][NextVerify]_vars

\* a signature-related input counts as supplied unless it is absent or empty
Supplied(v) == v # Undef /\ v # Null /\ v # Str("")

\* the signature createChallenge would give the request's fields under its secret
ExpectedSignature(o) ==
    Str(hmacSign(payload(o.prefix.s, o.target.s, o.expiresAt, metaHash(o.metadata)),
                 o.secret.s, 32))

NonEmptyString(v) == v.t = "string" /\ v.s # ""
ZeroTargets == {"0", "00", "000", "0000", "00000", "000000"}
FinitePositive(v) == v.t = "number" /\ v.k = "fin" /\ Twice(v) > 0

\* prefix, nonce, target and expiresAt pass the input checks
WellFormed(o) ==
    /\ NonEmptyString(o.prefix)
    /\ o.nonce.t \in {"string", "number"}
    /\ o.target.t = "string" /\ o.target.s \in ZeroTargets
    /\ FinitePositive(o.expiresAt)

\* the verdict the validation order prescribes for options o at clock t
ClaimedReason(o, t) ==
    IF ~NonEmptyString(o.prefix) THEN "invalid_input"
    ELSE IF o.nonce.t \notin {"string", "number"} THEN "invalid_input"
    ELSE IF ~(o.target.t = "string" /\ o.target.s \in ZeroTargets) THEN "invalid_target"
    ELSE IF ~FinitePositive(o.expiresAt) THEN "invalid_expiry"
    ELSE IF 2 * t > Twice(o.expiresAt) THEN "expired"
    ELSE IF Truthy(o.requireSignature) /\ ~Supplied(o.secret) THEN "missing_secret"
    ELSE IF Truthy(o.requireSignature) /\ ~Supplied(o.signature) THEN "missing_signature"
    ELSE IF Supplied(o.signature) /\ ~Supplied(o.secret) THEN "missing_secret"
    ELSE IF Supplied(o.signature) /\ o.signature # ExpectedSignature(o) THEN "invalid_signature"
    ELSE IF ~StartsWith(Sha256Hex(o.prefix.s \o ToStr(o.nonce)), o.target.s) THEN "invalid_hash"
    ELSE "valid"

C6_Expiry ==
    (Submitted /\ WellFormed(request)) =>
        /\ 2 * now > Twice(request.expiresAt)
              => (~verdict.valid /\ verdict.reason = Str("expired") /\ verdict.hash = Undef)
        /\ 2 * now = Twice(request.expiresAt) => verdict.reason # Str("expired")

\* a correct, correctly signed solution submitted one second late
C6_Witness ==
    /\ Submitted /\ WellFormed(request)
    /\ now = 3 /\ request.expiresAt = Num(2)
    /\ request.signature = Str(SigPlain) /\ request.secret = Str("k1")
    /\ request.metadata = Undef /\ request.target = Str("0")
    /\ request.nonce = Str("2")
    /\ verdict.reason = Str("expired")

\* the same solution submitted at the instant of expiry is valid
C6_WitnessBoundary ==
    /\ Submitted /\ WellFormed(request)
    /\ now = 2 /\ request.expiresAt = Num(2)
    /\ verdict.valid

-----------------------------------------------------------------------------
(* The issuer alone, on any options *)

\* difficulty: absent, null, a string, integers below, in and above 1..6,
\* fractions, NaN and the infinities
Difficulties ==
    {Undef, Null, Str("3"), NaN, PosInf, NegInf}
        \cup {Num(d) : d \in (0 - 1)..7} \cup {Half(0 - 1), Half(0), Half(2), Half(6)}
\* expiresIn: absent, NaN, infinite, zero, negative, fractional, positive
Lifetimes == {Undef, NaN, PosInf, Num(0), Num(0 - 1), Half(0), Num(1), Num(2)}

AnyCreateOptions ==
    [difficulty : Difficulties, expiresIn : Lifetimes,
     metadata : {Undef, MetaA}, secret : {Undef, Str("k1")}]

\* an issuer calls createChallenge(options)
CreateAny ==
    /\ challenge = Undef
    /\ \E options \in AnyCreateOptions, prefixHex \in Prefixes :
          /\ challenge' = createChallenge(options, IdHex, prefixHex, now)
          /\ issued' = options
    /\ UNCHANGED <<now, solver, request, verdict, meta>>

NextCreate == Tick \/ CreateAny

SpecCreate == Init /\ [][NextCreate]_vars

\* the difficulty a request for d is to give: min(6, max(1, floor(d))) for a
\* finite number, 4 otherwise
ClaimedDifficulty(d) ==
    IF d.t = "number" /\ d.k = "fin"
    THEN LET floor == IF d.half THEN (Twice(d) - 1) \div 2 ELSE Twice(d) \div 2
         IN IF floor < 1 THEN 1 ELSE IF floor > 6 THEN 6 ELSE floor
    ELSE 4

\* C7: whatever difficulty is requested, createChallenge returns a target made of
\* '0' characters only, of length min(6, max(1, floor(difficulty))), with 4 for a
\* missing or non-finite difficulty; an integer d in 1..6 gives length d.
C7_TargetLength ==
    challenge # Undef =>
        /\ AllZeros(challenge.target)
        /\ Len(challenge.target) = ClaimedDifficulty(issued.difficulty)
        /\ \A d \in 1..6 : issued.difficulty = Num(d) => challenge.target = Repeat("0", d)

\* a fractional difficulty is floored, and one below the range is raised to 1
C7_Witness ==
    /\ challenge # Undef
    /\ \/ issued.difficulty = Half(2) /\ challenge.target = "00"
       \/ issued.difficulty = Half(0 - 1) /\ challenge.target = "0"

-----------------------------------------------------------------------------
(* Canonical serialization of metadata *)

Inner1 == Obj(<< <<"a", Num(1)>>, <<"b", Null>> >>)
\* Inner1 with its keys inserted in the other order
Inner1Rev == Obj(<< <<"b", Null>>, <<"a", Num(1)>> >>)

\* values of a metadata property: primitives, arrays in both orders, objects in
\* both insertion orders
PropertyValues ==
    {Null, NaN, Num(1), Str("1"),
     Arr(<<Num(1), Null>>), Arr(<<Null, Num(1)>>), Inner1, Inner1Rev}

\* metadata objects over the keys "ab" and "b", in every insertion order
MetaValues ==
    {Obj(<< >>)}
        \cup {Obj(<< <<k, v>> >>) : k \in {"ab", "b"}, v \in PropertyValues}
        \cup {Obj(<< <<"ab", v>>, <<"b", w>> >>) : v \in PropertyValues, w \in PropertyValues}
        \cup {Obj(<< <<"b", w>>, <<"ab", v>> >>) : v \in PropertyValues, w \in PropertyValues}

\* createChallenge({difficulty: 1, expiresIn: 2, metadata: a, secret: 'k1'})
SignWith ==
    /\ meta = Undef
    /\ \E a \in MetaValues :
          LET options == [difficulty |-> Num(1), expiresIn |-> Num(2),
                          metadata |-> a, secret |-> Str("k1")]
          IN /\ issued' = options
             /\ challenge' = createChallenge(options, IdHex, "acc2dda14cc0994d", now)
             /\ meta' = [a |-> a, sa |-> canonicalJson(a).s]
    /\ UNCHANGED <<now, solver, request, verdict>>

\* verifyChallenge with the challenge's fields, a nonce that solves it, the
\* issuer's secret and metadata b
PresentWith ==
    /\ meta # Undef
    /\ request = Undef
    /\ \E b \in MetaValues :
          LET sent == [prefix |-> Str(challenge.prefix), nonce |-> Str("2"),
                       target |-> Str(challenge.target),
                       expiresAt |-> challenge.expiresAt,
                       signature |-> challenge.signature,
                       secret |-> issued.secret,
                       requireSignature |-> Undef, metadata |-> b]
          IN /\ request' = sent
             /\ verdict' = verifyChallenge(sent, now)
             /\ meta' = [a |-> meta.a, sa |-> meta.sa,
                         b |-> b, sb |-> canonicalJson(b).s]
    /\ UNCHANGED <<now, challenge, issued, solver>>

NextCanon == SignWith \/ PresentWith

SpecCanon == Init /\ [][NextCanon]_vars

\* C8 as claimed: equal metadata values serialize alike whatever the insertion
\* order of their keys, so that the signed challenge verifies, and metadata that
\* differ in a key, a value or the order of an array serialize differently.
C8_AsClaimed ==
    verdict # Undef =>
        /\ SemEq(meta.a, meta.b) => (meta.sa = meta.sb /\ verdict.valid)
        /\ ~SemEq(meta.a, meta.b) => meta.sa # meta.sb

\* C8, amended: equal metadata values serialize alike whatever the insertion order
\* of their keys, so that the signed challenge verifies, and metadata that differ
\* in a key, a value or the order of an array serialize differently and do not
\* verify, except that NaN, the infinities and null are all serialized as null.
C8_CanonicalForm ==
    verdict # Undef =>
        /\ SemEq(meta.a, meta.b) => (meta.sa = meta.sb /\ verdict.valid)
        /\ JsonEq(meta.a, meta.b) => (meta.sa = meta.sb /\ verdict.valid)
        /\ ~JsonEq(meta.a, meta.b) =>
              (meta.sa # meta.sb /\ verdict.reason = Str("invalid_signature"))

\* the same metadata with the keys in another order at both depths
C8_Witness ==
    /\ verdict # Undef
    /\ meta.a = Obj(<< <<"ab", Inner1>>, <<"b", Num(1)>> >>)
    /\ meta.b = Obj(<< <<"b", Num(1)>>, <<"ab", Inner1Rev>> >>)
    /\ meta.sa = "{\"ab\":{\"a\":1,\"b\":null},\"b\":1}"
    /\ meta.sb = meta.sa
    /\ verdict.valid

-----------------------------------------------------------------------------
(* The solver with a progress callback, while time passes *)

\* a callback: any function value
Function == [t |-> "function"]

\* progressInterval: absent, zero, counts, negative, fractional, NaN
ProgressIntervals == {Undef, Num(0), Num(1), Num(2), Num(3), Num(0 - 2), Half(0), NaN}

WatchedOptions ==
    [prefix : {Str(p) : p \in SolverPrefixes}, target : {Str("0"), Str("00")},
     maxIterations : {Num(MaxTries)}, onProgress : {Undef, Function},
     progressInterval : ProgressIntervals]

\* an agent calls solveChallenge(options) with onProgress and progressInterval
SolveWatched ==
    /\ solver = Idle
    /\ \E options \in WatchedOptions, isNode \in BOOLEAN :
          solver' = Enter(options, isNode, DateNow)
    /\ UNCHANGED <<now, challenge, issued, request, verdict, meta>>

NextProgress == Tick \/ SolveWatched \/ SolveStep \/ SolveRun

SpecProgress == Init /\ [][NextProgress]_vars

Watched == solver.pc # "idle" /\ Truthy(solver.onProgress)
\* n is a multiple k * progressInterval of the solver's progressInterval, k # 0
IsMultiple(n) ==
    /\ IsFinite(solver.progressInterval)
    /\ \E k \in (0 - 2 * n)..(2 * n) :
          k # 0 /\ k * Twice(solver.progressInterval) = 2 * n
\* the first arguments of the calls of onProgress, in the order of the calls
Reported == [k \in 1..Len(solver.calls) |-> solver.calls[k].iterations]
\* the increasing sequence of the members of S
RECURSIVE Ascending(_)
Ascending(S) ==
    IF S = {} THEN << >>
    ELSE LET least == CHOOSE x \in S : \A y \in S : x <= y
         IN <<least>> \o Ascending(S \ {least})
\* the iteration count at which the search found its match, 0 if it found none
MatchedAt ==
    IF solver.pc = "done" /\ solver.result.found THEN solver.result.iterations ELSE 0
RatesAreZeroAtZero ==
    \A k \in 1..Len(solver.calls) :
        /\ solver.calls[k].timeMs = 0 => solver.calls[k].hashRate = 0
        /\ solver.calls[k].timeMs > 0 =>
              \* iterations per second, to the nearest integer
              LET off == 2 * (solver.calls[k].hashRate * solver.calls[k].timeMs
                                 - 1000 * solver.calls[k].iterations)
              IN off <= solver.calls[k].timeMs /\ 0 - off <= solver.calls[k].timeMs

\* C11 as claimed: onProgress is called once at every iteration count that is a
\* multiple of progressInterval, in increasing order, with the count and a hash
\* rate that is 0 when no time has elapsed, and at no other count.
C11_AsClaimed ==
    Watched =>
        /\ Reported = Ascending({n \in 1..solver.iterations : IsMultiple(n)})
        /\ RatesAreZeroAtZero

\* C11, amended: onProgress is called once at every iteration count that is a
\* multiple of progressInterval and whose hash did not match the target, in
\* increasing order, with the count and a hash rate that is 0 when no time has
\* elapsed, and at no other count: the iteration that finds the match returns
\* without a call.
C11_ProgressCalls ==
    Watched =>
        /\ Reported = Ascending({n \in 1..solver.iterations : IsMultiple(n) /\ n # MatchedAt})
        /\ RatesAreZeroAtZero

\* two calls, the second after a second has passed, and a match at the sixth
\* iteration, a multiple of the interval, that is not reported
C11_Witness ==
    /\ Watched /\ solver.progressInterval = Num(2)
    /\ MatchedAt = 6
    /\ Reported = <<2, 4>>
    /\ solver.calls[1].hashRate = 0
    /\ solver.calls[2].timeMs = 1000 /\ solver.calls[2].hashRate = 4

-----------------------------------------------------------------------------
(* Tokens: generateToken and verifyToken *)

\* the printable characters in code order: from the space (32) to the underscore
\* (95), and from a (97) to the tilde (126)
AsciiLow == " !\"#$%&'()*+,-./0123456789:;<=>?@ABCDEFGHIJKLMNOPQRSTUVWXYZ[\\]^_"
AsciiHigh == "abcdefghijklmnopqrstuvwxyz{|}~"
\* the byte Buffer.from(c) holds for a printable character
ByteOf ==
    [c \in {SubSeq(AsciiLow, i, i) : i \in 1..Len(AsciiLow)}
             \cup {SubSeq(AsciiHigh, i, i) : i \in 1..Len(AsciiHigh)} |->
        IF \E i \in 1..Len(AsciiLow) : SubSeq(AsciiLow, i, i) = c
        THEN 31 + (CHOOSE i \in 1..Len(AsciiLow) : SubSeq(AsciiLow, i, i) = c)
        ELSE 96 + (CHOOSE i \in 1..Len(AsciiHigh) : SubSeq(AsciiHigh, i, i) = c)]
\* the character a byte decodes to; "?" stands for every other character
CharOf(byte) ==
    IF byte \in 32..95 THEN SubSeq(AsciiLow, byte - 31, byte - 31)
    ELSE IF byte \in 97..126 THEN SubSeq(AsciiHigh, byte - 96, byte - 96)
    ELSE "?"

Base64Chars == "ABCDEFGHIJKLMNOPQRSTUVWXYZabcdefghijklmnopqrstuvwxyz0123456789+/"
Sextet(n) == SubSeq(Base64Chars, n + 1, n + 1)
SextetOf ==
    [c \in {SubSeq(Base64Chars, i, i) : i \in 1..Len(Base64Chars)} |->
        (CHOOSE i \in 1..Len(Base64Chars) : SubSeq(Base64Chars, i, i) = c) - 1]

RECURSIVE Base64Encode(_)
\* Buffer.from(s).toString('base64'), three bytes to four characters, padded
Base64Encode(s) ==
    IF s = "" THEN ""
    ELSE LET b1 == ByteOf[SubSeq(s, 1, 1)]
             b2 == IF Len(s) >= 2 THEN ByteOf[SubSeq(s, 2, 2)] ELSE 0
             b3 == IF Len(s) >= 3 THEN ByteOf[SubSeq(s, 3, 3)] ELSE 0
         IN Sextet(b1 \div 4)
                \o (Sextet((b1 % 4) * 16 + b2 \div 16)
                \o ((IF Len(s) >= 2 THEN Sextet((b2 % 16) * 4 + b3 \div 64) ELSE "=")
                \o ((IF Len(s) >= 3 THEN Sextet(b3 % 64) ELSE "=")
                \o (IF Len(s) > 3 THEN Base64Encode(SubSeq(s, 4, Len(s))) ELSE ""))))

RECURSIVE Base64DecodeGroups(_)
\* four characters to three bytes; two or three characters at the end to one
\* or two bytes
Base64DecodeGroups(s) ==
    IF Len(s) < 2 THEN ""
    ELSE LET v1 == SextetOf[SubSeq(s, 1, 1)]
             v2 == SextetOf[SubSeq(s, 2, 2)]
             v3 == IF Len(s) >= 3 THEN SextetOf[SubSeq(s, 3, 3)] ELSE 0
             v4 == IF Len(s) >= 4 THEN SextetOf[SubSeq(s, 4, 4)] ELSE 0
         IN CharOf(v1 * 4 + v2 \div 16)
                \o ((IF Len(s) >= 3 THEN CharOf((v2 % 16) * 16 + v3 \div 4) ELSE "")
                \o ((IF Len(s) >= 4 THEN CharOf((v3 % 4) * 64 + v4) ELSE "")
                \o (IF Len(s) > 4 THEN Base64DecodeGroups(SubSeq(s, 5, Len(s))) ELSE "")))

\* Buffer.from(s, 'base64').toString(): the characters before the padding carry
\* the bits
Base64Decode(s) ==
    LET length == CHOOSE n \in 0..Len(s) :
                      /\ \A i \in 1..n : SubSeq(s, i, i) \in DOMAIN SextetOf
                      /\ n = Len(s) \/ SubSeq(s, n + 1, n + 1) \notin DOMAIN SextetOf
    IN Base64DecodeGroups(SubSeq(s, 1, length))

\* String.prototype.split(separator), for a separator of one character
Split(s, separator) ==
    LET at == {i \in 1..Len(s) : SubSeq(s, i, i) = separator}
        nth(k) == IF k = 0 THEN 0
                  ELSE IF k > Cardinality(at) THEN Len(s) + 1
                  ELSE CHOOSE i \in at : Cardinality({h \in at : h < i}) = k - 1
    IN [k \in 1..(Cardinality(at) + 1) |-> SubSeq(s, nth(k - 1) + 1, nth(k) - 1)]

IsDigit(c) == \E d \in 0..9 : Digit(d) = c
RECURSIVE DecimalValue(_)
DecimalValue(s) ==
    IF s = "" THEN 0
    ELSE 10 * DecimalValue(SubSeq(s, 1, Len(s) - 1))
            + (CHOOSE d \in 0..9 : Digit(d) = SubSeq(s, Len(s), Len(s)))

\* parseInt(s, 10): leading spaces, a sign, then the digits up to the first
\* character that is none; NaN without a digit
ParseInt(s) ==
    LET spaces == CHOOSE n \in 0..Len(s) :
                      /\ \A i \in 1..n : SubSeq(s, i, i) = " "
                      /\ n = Len(s) \/ SubSeq(s, n + 1, n + 1) # " "
        rest == SubSeq(s, spaces + 1, Len(s))
        signed == rest # "" /\ SubSeq(rest, 1, 1) \in {"-", "+"}
        body == IF signed THEN SubSeq(rest, 2, Len(rest)) ELSE rest
        digits == CHOOSE n \in 0..Len(body) :
                      /\ \A i \in 1..n : IsDigit(SubSeq(body, i, i))
                      /\ n = Len(body) \/ ~IsDigit(SubSeq(body, n + 1, n + 1))
        value == DecimalValue(SubSeq(body, 1, digits))
    IN IF digits = 0 THEN NaN
       ELSE IF signed /\ SubSeq(rest, 1, 1) = "-" THEN Num(0 - value) ELSE Num(value)

\* generateToken throws new Error('Invalid challengeId: must start with "nha_"')
ThrewError == [threw |-> "Error"]

\* generateToken(challengeId, secret) with Date.now() = t: the token, or what
\* is thrown
generateToken(challengeId, secret, t) ==
    IF ~Truthy(challengeId) \/ challengeId.t # "string" \/ ~StartsWith(challengeId.s, "nha_")
    THEN ThrewError
    ELSE LET tokenPayload == challengeId.s \o (":" \o NatToStr(t))
         IN IF Truthy(secret)
            THEN IF secret.t # "string" THEN Threw
                 ELSE Str(Base64Encode(tokenPayload) \o ("." \o hmacSign(tokenPayload, secret.s, 32)))
            ELSE Str(Base64Encode(tokenPayload))

\* maxAgeMs = 300000 when the argument is absent
DefaultMaxAgeMs == 300000

NotValid == [valid |-> FALSE, challengeId |-> Undef]

\* Date.now() - timestamp >= maxAgeMs, for the integer age and a number or null
AgeIsAtLeast(age, maxAgeMs) ==
    CASE maxAgeMs.t = "null" -> age >= 0
      [] maxAgeMs.k = "fin" -> 2 * age >= Twice(maxAgeMs)
      [] maxAgeMs.k = "nan" -> FALSE
      [] maxAgeMs.k = "inf" -> maxAgeMs.neg

\* the secret checks, with a token that carries no signature let through
tokenSecretChecksUnsignedPass(sig, tokenPayload, secret, options) ==
    IF options.t = "null" THEN FALSE
    ELSE IF Truthy(Property(options, "requireSecret")) /\ ~Truthy(secret) THEN FALSE
    ELSE IF ~Truthy(secret) THEN TRUE
    ELSE IF ~Truthy(sig) THEN TRUE
    ELSE IF secret.t # "string" THEN FALSE
    ELSE safeCompare(sig, hmacSign(tokenPayload, secret.s, 32))

\* the secret checks, with signatures compared by their length only
tokenSecretChecksLengthOnly(sig, tokenPayload, secret, options) ==
    IF options.t = "null" THEN FALSE
    ELSE IF Truthy(Property(options, "requireSecret")) /\ ~Truthy(secret) THEN FALSE
    ELSE IF ~Truthy(secret) THEN TRUE
    ELSE IF ~Truthy(sig) THEN FALSE
    ELSE IF secret.t # "string" THEN FALSE
    ELSE safeCompareLengthOnly(sig, hmacSign(tokenPayload, secret.s, 32))

\* the checks of requireSecret, of the signature's presence and of its value:
\* TRUE when they pass.  Reading a property of null, and createHmac with a key
\* that is no string, throw inside the try block, which returns {valid: false}.
tokenSecretChecks(sig, tokenPayload, secret, options) ==
    IF options.t = "null" THEN FALSE
    ELSE IF Truthy(Property(options, "requireSecret")) /\ ~Truthy(secret) THEN FALSE
    ELSE IF ~Truthy(secret) THEN TRUE
    ELSE IF ~Truthy(sig) THEN FALSE
    ELSE IF secret.t # "string" THEN FALSE
    ELSE safeCompare(sig, hmacSign(tokenPayload, secret.s, 32))

\* verifyToken(token, secret, maxAgeMs, options) with Date.now() = t
verifyToken(token, secret, maxAge, options, t) ==
    LET maxAgeMs == IF maxAge.t = "undefined" THEN Num(DefaultMaxAgeMs) ELSE maxAge
    IN IF ~Truthy(token) \/ token.t # "string" THEN NotValid
       ELSE LET pieces == Split(token.s, ".")
                payloadB64 == pieces[1]
                sig == IF Len(pieces) >= 2 THEN Str(pieces[2]) ELSE Undef
            IN IF payloadB64 = "" THEN NotValid
               ELSE LET tokenPayload == Base64Decode(payloadB64)
                        parts == Split(tokenPayload, ":")
                    IN IF Len(parts) # 2 THEN NotValid
                       ELSE LET challengeId == parts[1]
                                timestamp == ParseInt(parts[2])
                            IN IF challengeId = "" \/ ~StartsWith(challengeId, "nha_")
                               THEN NotValid
                               ELSE IF ~IsFinite(timestamp) \/ Twice(timestamp) <= 0
                               THEN NotValid
                               ELSE IF AgeIsAtLeast(t - timestamp.i, maxAgeMs) THEN NotValid
                               ELSE IF ~tokenSecretChecks(sig, tokenPayload, secret, options)
                               THEN NotValid
                               ELSE [valid |-> TRUE, challengeId |-> Str(challengeId)]

-----------------------------------------------------------------------------
(* A token is issued and, after some time, presented *)

\* challengeId arguments: absent, wrongly typed, without the prefix, a short
\* id, an id with a colon, and an id as createChallenge makes it
ChallengeIds ==
    {Undef, Null, Num(5), Str(""), Str("ab"), Str("xnha_ab"), Str("nha_ab"),
     Str("nha_a:b"), Str("nha_" \o IdHex)}
\* secret arguments: absent, strings, and a number
TokenSecrets == {Undef, Num(5)} \cup Secrets
\* maxAgeMs arguments: absent, zero, negative, a count of milliseconds, NaN
MaxAges == {Undef, Num(0), Num(0 - 1), Num(1000), NaN}
\* options arguments: absent, null, and with requireSecret
TokenOptions == {Undef, Null, [t |-> "object", requireSecret |-> Bool(TRUE)]}

\* a server calls generateToken(challengeId, secret)
Issue ==
    /\ issued = Undef
    /\ \E challengeId \in ChallengeIds, secret \in TokenSecrets :
          /\ issued' = [challengeId |-> challengeId, secret |-> secret, timestamp |-> DateNow]
          /\ challenge' = generateToken(challengeId, secret, DateNow)
    /\ UNCHANGED <<now, solver, request, verdict, meta>>

HasToken == issued # Undef /\ "s" \in DOMAIN challenge

\* what a client may present for the token it was given: the token, the token
\* without its signature, with a further piece, with the last character of a
\* signature altered, with the payload of a later timestamp and the same
\* signature, and values that are no token
PresentedTokens ==
    {challenge, Str(Split(challenge.s, ".")[1]), Str(challenge.s \o ".x"),
     Str(Base64Encode(issued.challengeId.s \o (":" \o NatToStr(issued.timestamp + 1000)))
             \o SubSeq(challenge.s, Len(Split(challenge.s, ".")[1]) + 1, Len(challenge.s))),
     Undef, Str("")}
        \cup (IF Len(Split(challenge.s, ".")) = 2
              THEN {Str(FlipChar(challenge.s, Len(challenge.s)))} ELSE {})

\* a server calls verifyToken(token, secret, maxAgeMs, options)
Present ==
    /\ HasToken
    /\ request = Undef
    /\ \E token \in PresentedTokens, secret \in TokenSecrets, maxAgeMs \in MaxAges,
          options \in TokenOptions :
          /\ request' = [token |-> token, secret |-> secret, maxAgeMs |-> maxAgeMs,
                         options |-> options]
          /\ verdict' = verifyToken(token, secret, maxAgeMs, options, DateNow)
    /\ UNCHANGED <<now, challenge, issued, solver, meta>>

NextToken == Tick \/ Issue \/ Present

SpecToken == Init /\ [][NextToken]_vars

Presented == HasToken /\ request # Undef
\* the token is presented as it was issued
SameToken == Presented /\ request.token = challenge
\* no options, or options without requireSecret
NoRequirement == request.options.t = "undefined"
\* the token's age at verification, in milliseconds
Age == DateNow - issued.timestamp
\* age < maxAgeMs, as numbers; maxAgeMs defaults to 300000
YoungerThan(maxAgeMs) ==
    CASE maxAgeMs.t = "undefined" -> Age < DefaultMaxAgeMs
      [] maxAgeMs.t = "null" -> Age < 0
      [] maxAgeMs.k = "fin" -> 2 * Age < Twice(maxAgeMs)
      [] maxAgeMs.k = "nan" -> FALSE
      [] maxAgeMs.k = "inf" -> ~maxAgeMs.neg
GoodId(challengeId) == challengeId.t = "string" /\ StartsWith(challengeId.s, "nha_")

\* C12 as claimed: a token generated without a secret for any id that starts with
\* nha_ and verified without a secret within the maximum age is valid and gives
\* back the id.
C12_AsClaimed ==
    (SameToken /\ ~Truthy(issued.secret) /\ ~Truthy(request.secret) /\ NoRequirement
        /\ YoungerThan(request.maxAgeMs))
        => verdict = [valid |-> TRUE, challengeId |-> issued.challengeId]

\* C13 as claimed: a token generated with a secret and verified with the same
\* secret is valid exactly while its age is strictly less than maxAgeMs.
C13_AsClaimed ==
    (SameToken /\ Truthy(issued.secret) /\ request.secret = issued.secret /\ NoRequirement)
        => (verdict.valid <=> YoungerThan(request.maxAgeMs))

\* the signature piece of the presented token and its decoded payload
PresentedSig == Split(request.token.s, ".")[2]
PresentedPayload == Base64Decode(Split(request.token.s, ".")[1])

\* C14: with a secret, verifyToken returns valid only for a token that carries a
\* signature equal to the HMAC of its decoded payload under that secret; the
\* unsigned token, the token signed under another secret and the token with an
\* altered signature are invalid; with requireSecret and no secret every token
\* is invalid.
C14_SecretBindsToken ==
    Presented =>
        /\ (Truthy(request.secret) /\ verdict.valid) =>
              /\ request.token.t = "string" /\ Len(Split(request.token.s, ".")) >= 2
              /\ request.secret.t = "string"
              /\ PresentedSig = hmacSign(PresentedPayload, request.secret.s, 32)
        /\ (Truthy(request.secret) /\ request.token.t = "string"
                /\ Len(Split(request.token.s, ".")) = 1) => ~verdict.valid
        /\ (Truthy(request.secret) /\ Truthy(issued.secret) /\ request.secret # issued.secret
                /\ SameToken) => ~verdict.valid
        /\ (Truthy(request.secret) /\ Truthy(issued.secret)
                /\ request.token = Str(FlipChar(challenge.s, Len(challenge.s))))
              => ~verdict.valid
        /\ (Truthy(Property(request.options, "requireSecret")) /\ ~Truthy(request.secret))
              => ~verdict.valid

\* a token signed under k1 is presented with k2 within its age, and refused
C14_Witness ==
    /\ SameToken
    /\ issued.secret = Str("k1") /\ request.secret = Str("k2")
    /\ request.maxAgeMs = Undef /\ NoRequirement
    /\ issued.challengeId = Str("nha_" \o IdHex)
    /\ ~verdict.valid

\* C15 as claimed: generateToken throws exactly when challengeId is missing, is no
\* string or does not start with nha_, and returns a token otherwise.
C15_AsClaimed ==
    issued # Undef =>
        IF GoodId(issued.challengeId) THEN "s" \in DOMAIN challenge
        ELSE challenge = ThrewError

-----------------------------------------------------------------------------
(* The two verifiers on arguments of any type *)

\* VerifyOptions with fields of the wrong type, the secret among them
WrongTypeOptions ==
    [prefix : {Num(5), Str("acc2dda14cc0994d")},
     nonce : {Null, Str("2")},
     target : {Num(0), Str("0")},
     expiresAt : {Str("2"), Num(2), Num(MaxNow)},
     signature : {Undef, Num(1), Str(SigPlain)},
     secret : {Undef, Str(""), Num(5), Bool(TRUE), Str("k1")},
     requireSignature : {Undef, Bool(TRUE)},
     metadata : {Undef, MetaA}]

\* a server calls verifyChallenge(options) on such options
VerifyWrongTypes ==
    /\ request = Undef
    /\ \E options \in WrongTypeOptions :
          /\ request' = options
          /\ verdict' = verifyChallenge(options, now)
    /\ UNCHANGED <<now, challenge, issued, solver, meta>>

\* token arguments: absent, wrongly typed, empty, without a payload, no base64 of
\* a payload, and a token generated at the first second under k1
WrongTypeTokens ==
    {Undef, Null, Num(5), Str(""), Str("."), Str("abc"), Str("bmhhXw=="),
     generateToken(Str("nha_ab"), Str("k1"), 1000)}

\* a server calls verifyToken on arguments of any type
PresentWrongTypes ==
    /\ request = Undef
    /\ \E token \in WrongTypeTokens, secret \in {Undef, Str(""), Num(5), Bool(TRUE), Str("k1")},
          maxAgeMs \in {Undef, Null, NaN, Num(0), Num(1000)},
          options \in TokenOptions :
          /\ request' = [token |-> token, secret |-> secret, maxAgeMs |-> maxAgeMs,
                         options |-> options]
          /\ verdict' = verifyToken(token, secret, maxAgeMs, options, DateNow)
    /\ UNCHANGED <<now, challenge, issued, solver, meta>>

NextFaults == Tick \/ VerifyWrongTypes \/ PresentWrongTypes

SpecFaults == Init /\ [][NextFaults]_vars

\* C16 as claimed: verifyChallenge and verifyToken return a result for every
\* input and throw for none: verifyChallenge a verdict that, when not valid,
\* carries a reason, verifyToken a verdict that is valid or {valid: false}.
C16_AsClaimed ==
    request # Undef =>
        /\ Returned(verdict)
        /\ ("token" \notin DOMAIN request /\ ~verdict.valid) => verdict.reason.t = "string"
        /\ ("token" \in DOMAIN request /\ ~verdict.valid) => verdict = NotValid

-----------------------------------------------------------------------------
(* Several challenges at once: challenge, issued, solver, request and      *)
(* verdict hold one value per challenge                                    *)

\* the challenges in flight
Slots == {1, 2}

InitSeveral ==
    /\ now = 1
    /\ challenge = [i \in Slots |-> Undef]
    /\ issued = [i \in Slots |-> Undef]
    /\ solver = [i \in Slots |-> Idle]
    /\ request = [i \in Slots |-> Undef]
    /\ verdict = [i \in Slots |-> Undef]
    /\ meta = Undef

\* time passes, whatever the calls in flight, once the challenges are created
TickSeveral ==
    /\ now < MaxNow
    /\ \A i \in Slots : challenge[i] # Undef
    /\ now' = now + 1
    /\ UNCHANGED <<challenge, issued, solver, request, verdict, meta>>

\* createChallenge({difficulty: 2, expiresIn: 2}) for challenge i
CreateAt(i) ==
    /\ challenge[i] = Undef
    /\ \E prefixHex \in Prefixes :
          LET options == [difficulty |-> Num(2), expiresIn |-> Num(2), metadata |-> Undef,
                          secret |-> Undef]
          IN /\ challenge' = [challenge EXCEPT ![i] = createChallenge(options, IdHex, prefixHex, now)]
             /\ issued' = [issued EXCEPT ![i] = options]
    /\ UNCHANGED <<now, solver, request, verdict, meta>>

\* the options of solveChallenge for challenge i
SolveOptionsOf(i) ==
    [prefix |-> Str(challenge[i].prefix), target |-> Str(challenge[i].target),
     maxIterations |-> Undef]

\* solveChallenge is called for challenge i
SolveStartAt(i) ==
    /\ challenge[i] # Undef
    /\ solver[i] = Idle
    /\ \E isNode \in BOOLEAN :
          solver' = [solver EXCEPT ![i] = Enter(SolveOptionsOf(i), isNode, DateNow)]
    /\ UNCHANGED <<now, challenge, issued, request, verdict, meta>>

\* a loop whose nonce is a variable shared by the calls in flight: the pass
\* for challenge i continues from the largest nonce of any call
SolveStepShared(i) ==
    /\ solver[i].pc = "loop"
    /\ ~solver[i].isNode
    /\ LET shared == CHOOSE n \in {solver[j].nonce : j \in {k \in Slots : solver[k].pc = "loop"}} :
                         \A j \in Slots : solver[j].pc = "loop" => solver[j].nonce <= n
       IN solver' = [solver EXCEPT ![i] = Iterate([solver[i] EXCEPT !.nonce = shared], DateNow)]
    /\ UNCHANGED <<now, challenge, issued, request, verdict, meta>>

\* the call for challenge i resumes after an awaited digest and makes one pass;
\* iterations and nonce are locals of the call
SolveStepAt(i) ==
    /\ solver[i].pc = "loop"
    /\ ~solver[i].isNode
    /\ solver' = [solver EXCEPT ![i] = Iterate(solver[i], DateNow)]
    /\ UNCHANGED <<now, challenge, issued, request, verdict, meta>>

\* under Node the call for challenge i runs to its end without suspension
SolveRunAt(i) ==
    /\ solver[i].pc = "loop"
    /\ solver[i].isNode
    /\ solver' = [solver EXCEPT ![i] = RunToEnd(solver[i], DateNow)]
    /\ UNCHANGED <<now, challenge, issued, request, verdict, meta>>

\* the submission for challenge i that carries nonce
SubmissionOf(i, nonce) ==
    [prefix |-> Str(challenge[i].prefix), nonce |-> nonce,
     target |-> Str(challenge[i].target), expiresAt |-> challenge[i].expiresAt,
     signature |-> Undef, secret |-> Undef, requireSignature |-> Undef, metadata |-> Undef]

\* verifyChallenge is called for challenge i with the nonce its solver found
SubmitAt(i) ==
    /\ solver[i].pc = "done" /\ solver[i].result.found
    /\ request[i] = Undef
    /\ LET options == SubmissionOf(i, solver[i].result.nonce)
       IN /\ request' = [request EXCEPT ![i] = [options |-> options, at |-> now]]
          /\ verdict' = [verdict EXCEPT ![i] = verifyChallenge(options, now)]
    /\ UNCHANGED <<now, challenge, issued, solver, meta>>

NextSeveral ==
    \/ TickSeveral
    \/ \E i \in Slots : CreateAt(i)
    \/ \E i \in Slots : SolveStartAt(i)
    \/ \E i \in Slots : SolveStepAt(i)
    \/ \E i \in Slots : SolveRunAt(i)
    \/ \E i \in Slots : SubmitAt(i)

SpecSeveral == InitSeveral /\ [][NextSeveral]_vars

\* the result of solveChallenge for challenge i when nothing else runs
AloneResult(i) == RunToEnd(Enter(SolveOptionsOf(i), TRUE, 0), 0).result

\* C17: whatever the interleaving of the calls for different challenges, each
\* solve returns the nonce and hash, and each verify the verdict, that the
\* challenge gets when it is processed alone.
C17_NoInterference ==
    \A i \in Slots :
        /\ solver[i].pc = "done" => solver[i].result = AloneResult(i)
        /\ verdict[i] # Undef =>
              verdict[i] = verifyChallenge(SubmissionOf(i, AloneResult(i).nonce), request[i].at)

\* two searches that were interleaved have ended with their own nonces, and one
\* verdict is valid while the other submission came too late
C17_Witness ==
    /\ verdict[1] # Undef /\ verdict[2] # Undef
    /\ ~solver[1].isNode /\ ~solver[2].isNode
    /\ solver[1].result.nonce = Str("3") /\ solver[2].result.nonce = Str("5")
    /\ verdict[1].valid
    /\ verdict[2].reason = Str("expired")

-----------------------------------------------------------------------------
(* A challenge is created with any expiresIn and verified *)

\* expiresIn: absent, null, a string, NaN, infinite, zero, negative, tiny,
\* fractional, positive
AnyLifetimes == Lifetimes \cup {Null, Str("30"), NegInf, Tiny, Half(1)}

\* createChallenge({difficulty: 1, expiresIn}); meta keeps the time of the call
CreateFresh ==
    /\ challenge = Undef
    /\ \E expiresIn \in AnyLifetimes :
          LET options == [difficulty |-> Num(1), expiresIn |-> expiresIn, metadata |-> Undef,
                          secret |-> Undef]
          IN /\ challenge' = createChallenge(options, IdHex, "acc2dda14cc0994d", now)
             /\ issued' = options
    /\ meta' = [createdAt |-> now]
    /\ UNCHANGED <<now, solver, request, verdict>>

\* verifyChallenge on the challenge's fields and the nonce 2, which solves it
VerifyFresh ==
    /\ challenge # Undef
    /\ request = Undef
    /\ LET options == [prefix |-> Str(challenge.prefix), nonce |-> Str("2"),
                       target |-> Str(challenge.target), expiresAt |-> challenge.expiresAt,
                       signature |-> Undef, secret |-> Undef, requireSignature |-> Undef,
                       metadata |-> Undef]
       IN /\ request' = options
          /\ verdict' = verifyChallenge(options, now)
    /\ meta' = [createdAt |-> meta.createdAt, verifiedAt |-> now]
    /\ UNCHANGED <<now, challenge, issued, solver>>

NextFresh == Tick \/ CreateFresh \/ VerifyFresh

SpecFresh == Init /\ [][NextFresh]_vars

\* twice the lifetime a request for expiresIn is to give: expiresIn if it is a
\* finite number above 0, else 60
ClaimedLifetime(expiresIn) ==
    IF expiresIn.t = "number" /\ expiresIn.k = "fin" /\ (Twice(expiresIn) > 0 \/ IsTiny(expiresIn))
    THEN Twice(expiresIn) ELSE 120
VerifiedAtCreation ==
    verdict # Undef /\ meta.verifiedAt = meta.createdAt

\* C18 as claimed: expiresAt is the creation time plus the normalized expiresIn,
\* which is 60 for a missing, non-finite, zero or negative one; so expiresAt is
\* strictly greater than the creation time and a verification at the creation
\* instant does not report expired.
C18_AsClaimed ==
    challenge # Undef =>
        /\ IsFinite(challenge.expiresAt)
        /\ Twice(challenge.expiresAt) = 2 * meta.createdAt + ClaimedLifetime(issued.expiresIn)
        /\ Twice(challenge.expiresAt) > 2 * meta.createdAt
        /\ VerifiedAtCreation => verdict.valid

\* C18, amended: expiresAt is the floating-point sum of the creation time and the
\* normalized expiresIn, which is 60 for a missing, non-finite, zero or negative
\* one; so expiresAt is at least the creation time, strictly greater for every
\* expiresIn large enough to change the sum, and a verification at the creation
\* instant does not report expired.
C18_FreshNotExpired ==
    challenge # Undef =>
        /\ IsFinite(challenge.expiresAt)
        /\ Twice(challenge.expiresAt) = 2 * meta.createdAt + ClaimedLifetime(issued.expiresIn)
        /\ Twice(challenge.expiresAt) >= 2 * meta.createdAt
        /\ ~IsTiny(issued.expiresIn) => Twice(challenge.expiresAt) > 2 * meta.createdAt
        /\ VerifiedAtCreation => verdict.valid

\* a negative expiresIn gave 60 seconds, and the challenge created at the third
\* second verifies in that second
C18_Witness ==
    /\ VerifiedAtCreation /\ meta.createdAt = 3
    /\ issued.expiresIn = Num(0 - 1)
    /\ challenge.expiresAt = Num(63)
    /\ verdict.valid

-----------------------------------------------------------------------------
(* One submission, verified again and again while time passes *)

\* time passes, between the calls of verifyChallenge
TickOn ==
    /\ now < MaxNow
    /\ now' = now + 1
    /\ UNCHANGED <<challenge, issued, solver, request, verdict, meta>>

\* submissions for the prefix acc2dda14cc0994d, which nonce 2 solves for target
\* "0" and nonce 3 for target "00": solved or not, signed for (target "0",
\* expiresAt 2) or not, expiring during the run or after it
Submissions ==
    [prefix : {Str("acc2dda14cc0994d")}, nonce : {Str("1"), Str("2"), Num(3)},
     target : {Str("0"), Str("00")},
     expiresAt : {Num(1), Num(2), Half(2), Num(3), Num(MaxNow + 1)},
     signature : {Undef, Str(SigPlain)}, secret : {Undef, Str("k1")},
     requireSignature : {Undef, Bool(TRUE)}, metadata : {Undef}]

\* a server calls verifyChallenge(options) for the first time; meta keeps the
\* first verdict and the time of the latest call
SubmitFirst ==
    /\ request = Undef
    /\ \E options \in Submissions :
          LET first == verifyChallenge(options, now)
          IN /\ request' = options
             /\ verdict' = first
             /\ meta' = [first |-> first, at |-> now, calls |-> 1]
    /\ UNCHANGED <<now, challenge, issued, solver>>

\* a verifier that remembers the submissions it has accepted and refuses them
\* the second time
ResubmitOnce ==
    /\ request # Undef
    /\ meta.calls < MaxNow
    /\ verdict' = IF meta.first.valid THEN Invalid("replayed") ELSE verifyChallenge(request, now)
    /\ meta' = [meta EXCEPT !.at = now, !.calls = meta.calls + 1]
    /\ UNCHANGED <<now, challenge, issued, solver, request>>

\* the same options are handed to verifyChallenge again
Resubmit ==
    /\ request # Undef
    /\ meta.calls < MaxNow
    /\ verdict' = verifyChallenge(request, now)
    /\ meta' = [meta EXCEPT !.at = now, !.calls = meta.calls + 1]
    /\ UNCHANGED <<now, challenge, issued, solver, request>>

NextReplay == TickOn \/ SubmitFirst \/ Resubmit

SpecReplay == Init /\ [][NextReplay]_vars

\* C19: a submission that was valid once is valid, with the same verdict, at every
\* later call made while the time is not past expiresAt, and is rejected as
\* expired at every call made after that; a call changes no later verdict.
C19_NoReplayProtection ==
    (request # Undef /\ meta.first.valid) =>
        IF 2 * meta.at <= Twice(request.expiresAt)
        THEN verdict = meta.first
        ELSE verdict = Invalid("expired")

\* C19, step by step: once a submission that was valid is rejected as expired, no
\* later call accepts it, and while it is accepted every call gives the first
\* verdict.
C19_ExpiredForever ==
    [][(request # Undef /\ meta.first.valid /\ verdict.reason = Str("expired"))
          => verdict'.reason = Str("expired")]_vars

\* the third call for a submission, at the instant of its expiry, still valid
C19_Witness ==
    /\ request # Undef /\ meta.first.valid
    /\ meta.calls = 3 /\ meta.at = 3
    /\ request.expiresAt = Num(3)
    /\ verdict.valid

\* the call after the expiry of a submission that was valid
C19_WitnessExpired ==
    /\ request # Undef /\ meta.first.valid
    /\ meta.calls >= 2
    /\ request.expiresAt = Half(2) /\ meta.at = 3
    /\ verdict = Invalid("expired")

-----------------------------------------------------------------------------
(* estimateSolveTime *)

\* the assumed hash rates, per second
NodeHashRate == 800000
BrowserHashRate == 300000

\* an exponent that stops at difficulty 6, the largest createChallenge gives
Log2Pow16Clamped(difficulty) == 2 * Min(12, Twice(difficulty))

\* log2 of Math.pow(16, difficulty), for a finite difficulty that is a multiple
\* of 0.5 or tiny: 16^d = 2^(4d), and Math.pow(16, tiny) is 1
Log2Pow16(difficulty) == 2 * Twice(difficulty)

RECURSIVE Pow2(_)
Pow2(n) == IF n <= 0 THEN 1 ELSE 2 * Pow2(n - 1)

\* a double that is 2^exp2 * 1000 / hashRate, and the doubles 0, Infinity, NaN
Quotient(exp2, hashRate) == [k |-> "fin", exp2 |-> exp2, hashRate |-> hashRate]
Zero == [k |-> "zero"]
Infinite == [k |-> "inf"]
NotANumber == [k |-> "nan"]

\* averageMs < limit, for a limit in whole milliseconds
Below(averageMs, limit) ==
    CASE averageMs.k = "zero" -> TRUE
      [] averageMs.k = "fin" ->
            averageMs.exp2 <= 26
                /\ Pow2(averageMs.exp2) < limit * (averageMs.hashRate \div 1000)
      [] OTHER -> FALSE

\* estimateSolveTime(difficulty); isNode is typeof window === 'undefined'.
\* 16^difficulty is Infinity from 2^1024 on, and (avgIterations / hashRate)
\* rounds to 0 below 2^-1075, which is at avgIterations = 2^-1057 for both rates
estimateSolveTime(difficulty, isNode) ==
    LET hashRate == IF isNode THEN NodeHashRate ELSE BrowserHashRate
        averageMs ==
            CASE difficulty.k = "nan" -> NotANumber
              [] difficulty.k = "inf" -> IF difficulty.neg THEN Zero ELSE Infinite
              [] difficulty.k = "fin" ->
                    IF Log2Pow16(difficulty) >= 1024 THEN Infinite
                    ELSE IF Log2Pow16(difficulty) - 1 <= 0 - 1057 THEN Zero
                    ELSE Quotient(Log2Pow16(difficulty) - 1, hashRate)
    IN [averageMs |-> averageMs,
        description |-> IF Below(averageMs, 100) THEN "Nearly instant"
                        ELSE IF Below(averageMs, 1000) THEN "Under a second"
                        ELSE IF Below(averageMs, 10000) THEN "A few seconds"
                        ELSE IF Below(averageMs, 60000) THEN "Under a minute"
                        ELSE "Over a minute"]

\* difficulties: the integers -2..7, halves, a tiny one, those at the two ends of
\* the doubles' range, the infinities and NaN
EstimatedDifficulties ==
    {Num(d) : d \in (0 - 2)..7} \cup {Half(0), Half(1), Half(6), Tiny, NaN, PosInf, NegInf}
        \cup {Num(0 - 300), Num(0 - 264), Half(0 - 264), Num(0 - 263),
              Num(255), Half(255), Num(256), Num(257)}

\* estimateSolveTime(d1) is called
EstimateFirst ==
    /\ meta = Undef
    /\ \E d1 \in EstimatedDifficulties, isNode \in BOOLEAN :
          meta' = [isNode |-> isNode, d1 |-> d1, e1 |-> estimateSolveTime(d1, isNode)]
    /\ UNCHANGED <<now, challenge, issued, solver, request, verdict>>

\* estimateSolveTime(d2) is called in the same environment
EstimateSecond ==
    /\ meta # Undef
    /\ "d2" \notin DOMAIN meta
    /\ \E d2 \in EstimatedDifficulties :
          meta' = [isNode |-> meta.isNode, d1 |-> meta.d1, e1 |-> meta.e1,
                   d2 |-> d2, e2 |-> estimateSolveTime(d2, meta.isNode)]
    /\ UNCHANGED <<now, challenge, issued, solver, request, verdict>>

NextEstimate == EstimateFirst \/ EstimateSecond

SpecEstimate == Init /\ [][NextEstimate]_vars

Estimated == meta # Undef /\ "d2" \in DOMAIN meta
\* a < b for difficulties, neither of them NaN; the tiny one lies between 0 and 0.5
Rank(d) == 2 * Twice(d) + (IF IsTiny(d) THEN 1 ELSE 0)
DifficultyLess(a, b) ==
    /\ a.k # "nan" /\ b.k # "nan"
    /\ CASE a.k = "inf" -> a.neg /\ b # NegInf
         [] b.k = "inf" -> ~b.neg
         [] OTHER -> Rank(a) < Rank(b)
\* x < y for two estimates made with one hash rate
AverageLess(x, y) ==
    CASE x.k = "nan" \/ y.k = "nan" -> FALSE
      [] x.k = "zero" -> y.k # "zero"
      [] x.k = "inf" -> FALSE
      [] y.k = "zero" -> FALSE
      [] y.k = "inf" -> TRUE
      [] OTHER -> x.exp2 < y.exp2
\* averageMs = (16^d / 2) / hashRate * 1000 for the integer d in 1..6 and the
\* environment's rate: averageMs * hashRate / 1000 is 16^d / 2
AsFormula(d, e, isNode) ==
    /\ e.averageMs.k = "fin"
    /\ e.averageMs.hashRate = (IF isNode THEN 800000 ELSE 300000)
    /\ 2 * Pow2(e.averageMs.exp2) = Pow2(4 * d)
FormulaHolds ==
    /\ \A d \in 1..6 : meta.d1 = Num(d) => AsFormula(d, meta.e1, meta.isNode)
    /\ \A d \in 1..6 : meta.d2 = Num(d) => AsFormula(d, meta.e2, meta.isNode)

InRange(e) == e.averageMs.k = "fin"

-----------------------------------------------------------------------------
(* Several searches with short progress batches *)

\* solveChallenge({prefix, target: "00", maxIterations, onProgress,
\* progressInterval}) is called for slot i
SolveStartBatched(i) ==
    /\ solver[i] = Idle
    /\ \E prefixHex \in Prefixes, progressInterval \in {Num(1), Num(2)}, isNode \in BOOLEAN :
          solver' = [solver EXCEPT ![i] =
                        Enter([prefix |-> Str(prefixHex), target |-> Str("00"),
                               maxIterations |-> Num(MaxTries), onProgress |-> Function,
                               progressInterval |-> progressInterval], isNode, DateNow)]
    /\ UNCHANGED <<now, challenge, issued, request, verdict, meta>>

NextYield ==
    \/ \E i \in Slots : SolveStartBatched(i)
    \/ \E i \in Slots : SolveStepAt(i)
    \/ \E i \in Slots : SolveRunAt(i)

SpecYield == InitSeveral /\ [][NextYield]_vars

\* the iterations of one progress batch of search i
Batch(i) == solver[i].progressInterval.i
\* another search than i has started and has not ended
OtherWaits(i) == \E j \in Slots \ {i} : solver[j].pc = "loop"

\* C21 as claimed: the loop yields at each iteration, or at least at each batch
\* of progressInterval iterations: between two points where other searches can
\* run and a cancellation can be seen, a search that runs beside another started
\* search makes no more iterations than one batch.
C21_AsClaimed ==
    [][\A i \in Slots :
          (solver[i].pc = "loop" /\ OtherWaits(i))
              => solver'[i].iterations <= solver[i].iterations + Batch(i)]_vars

-----------------------------------------------------------------------------
(* Tokens that carry a signature, verified without a secret *)

\* the presented token has a second piece after a dot, and it is not empty
CarriesSignature ==
    /\ request.token.t = "string"
    /\ Len(Split(request.token.s, ".")) >= 2
    /\ PresentedSig # ""

\* C22 as claimed: verifyToken never returns valid for a token that carries a
\* signature piece when no secret is supplied to check it.
C22_AsClaimed ==
    (Presented /\ CarriesSignature /\ request.secret = Undef) => ~verdict.valid

-----------------------------------------------------------------------------
(* Tokens issued under one secret, and a token assembled from them *)

\* the tokens a server issues before one is presented
MaxIssued == 2

InitForge ==
    /\ now = 1
    /\ challenge = << >>
    /\ issued = << >>
    /\ solver = Idle
    /\ request = Undef
    /\ verdict = Undef
    /\ meta = Undef

\* ids a server issues tokens for, one with a colon among them
IssuedIds == {Str("nha_ab"), Str("nha_cd"), Str("nha_a:b")}

\* a server calls generateToken(challengeId, secret), each time with the same
\* secret
IssueUnder ==
    /\ request = Undef
    /\ Len(issued) < MaxIssued
    /\ \E challengeId \in IssuedIds, secret \in Secrets :
          /\ Len(issued) >= 1 => secret = issued[1].secret
          /\ issued' = Append(issued, [challengeId |-> challengeId, secret |-> secret,
                                       timestamp |-> DateNow])
          /\ challenge' = Append(challenge, generateToken(challengeId, secret, DateNow))
    /\ UNCHANGED <<now, solver, request, verdict, meta>>

\* the pieces of the k-th issued token
PayloadPiece(k) == Split(challenge[k].s, ".")[1]
SigPiece(k) == Split(challenge[k].s, ".")[2]
\* the payload generateToken signed for the k-th token
SignedPayload(k) == issued[k].challengeId.s \o (":" \o NatToStr(issued[k].timestamp))

\* payloads to put in a token: those of the issued tokens, and encoded payloads
\* with an id of one token or another id, and a timestamp of one token or a
\* later one
AssembledPayloads ==
    {PayloadPiece(k) : k \in 1..Len(issued)}
        \cup {Base64Encode(id \o (":" \o NatToStr(timestamp))) :
                 id \in {issued[k].challengeId.s : k \in 1..Len(issued)} \cup {"nha_zz"},
                 timestamp \in {issued[k].timestamp : k \in 1..Len(issued)}
                                  \cup {issued[1].timestamp + 1000}}

\* tokens assembled from the issued ones: a payload with the signature of any
\* issued token, an issued token with a further piece after its signature, and
\* one with a piece put before its signature
AssembledTokens ==
    {Str(payloadB64 \o ("." \o SigPiece(k))) :
        payloadB64 \in AssembledPayloads, k \in 1..Len(issued)}
        \cup {Str(challenge[k].s \o ".x") : k \in 1..Len(issued)}
        \cup {Str(PayloadPiece(k) \o (".x." \o SigPiece(k))) : k \in 1..Len(issued)}

\* a server calls verifyToken(token, secret, maxAgeMs) with the secret the
\* tokens were issued under
PresentAssembled ==
    /\ request = Undef
    /\ Len(issued) >= 1
    /\ \E token \in AssembledTokens, maxAgeMs \in {Undef, Num(2000)} :
          /\ request' = [token |-> token, secret |-> issued[1].secret,
                         maxAgeMs |-> maxAgeMs, options |-> Undef]
          /\ verdict' = verifyToken(token, issued[1].secret, maxAgeMs, Undef, DateNow)
    /\ UNCHANGED <<now, challenge, issued, solver, meta>>

NextForge == Tick \/ IssueUnder \/ PresentAssembled

SpecForge == InitForge /\ [][NextForge]_vars

\* C23: a token assembled from tokens issued under a secret is valid under that
\* secret only if its decoded payload is one that generateToken signed under
\* the secret, and the challengeId returned is the one issued in that payload.
C23_TokenIntegrity ==
    (request # Undef /\ verdict.valid) =>
        \E k \in 1..Len(issued) :
            /\ PresentedPayload = SignedPayload(k)
            /\ verdict.challengeId = issued[k].challengeId

\* two tokens are issued for different ids; the first with a further piece
\* after its signature is accepted and gives the first id
C23_Witness ==
    /\ request # Undef
    /\ Len(issued) = 2
    /\ issued[1].challengeId # issued[2].challengeId
    /\ request.token = Str(challenge[1].s \o ".x")
    /\ verdict = [valid |-> TRUE, challengeId |-> issued[1].challengeId]

\* two tokens are issued for different ids; the payload of the first with the
\* signature of the second is refused
C23_SwapRefused ==
    /\ request # Undef
    /\ Len(issued) = 2
    /\ issued[1].challengeId # issued[2].challengeId
    /\ request.token = Str(PayloadPiece(1) \o ("." \o SigPiece(2)))
    /\ request.maxAgeMs = Undef
    /\ ~verdict.valid

=============================================================================
